---- MODULE Spec2Model ----
(***************************************************************************)
(* AccessONIX form controller (pamarty/DPS_AccessONIX), browser side.      *)
(*                                                                         *)
(* The model follows the decomposed controller that main.js installs at   *)
(* its end (main.js 317-329): modules/form-handlers.js,                    *)
(* modules/form-validation.js, modules/utils.js, the ui-controls module   *)
(* (src/unnamed/part_000) and the page template with its inline listeners *)
(* (src/unnamed/part_001).  main.js 1-316 holds two earlier revisions of  *)
(* the same handlers.                                                      *)
(*                                                                         *)
(* Text values are sequences of one-character strings, so that the        *)
(* regular expressions and the string operations of the code can be       *)
(* computed character by character.  Messages shown to the user are       *)
(* strings.                                                                *)
(*                                                                         *)
(* A submit gesture is the form's submit event.  The browser raises it    *)
(* only through the submit button, so it cannot occur while the button is *)
(* disabled; typing is possible only into displayed fields.  The event    *)
(* can reach the handler on any content of the form: the browser's own     *)
(* checking of the required and pattern attributes is not modelled.        *)
(***************************************************************************)
EXTENDS Integers, Sequences, FiniteSets, TLC

\* ------------------------------------------------------------------ bounds
\* submit gestures in one behaviour
MaxSubmits == 2
\* input events (typing, choosing a file) in one behaviour
MaxInputs == 3
\* the same two bounds for SpecForm
MaxFormSubmits == 1
MaxFormInputs == 7
\* SpecFill: length of the text a field is filled with, input events and
\* submit gestures in one behaviour
MaxFillLen == 5
MaxNameLen == 3
MaxFillEvents == 2
MaxFillSubmits == 1
\* SpecTimers: submit gestures in one behaviour
MaxTimerSubmits == 3

\* ------------------------------------------------------- program constants
\* setTimeout(() => errorDiv.remove(), 5000), in seconds
ErrorTimeout == 5
\* /^\d{13}$/ and slice(0, 13)
IsbnLength == 13

\* --------------------------------------------------------------- characters
Digits == {"0", "1", "2", "3", "4", "5", "6", "7", "8", "9"}
Lower == {"a", "b", "c", "d", "e", "f", "g", "h", "i", "j", "k", "l", "m",
          "n", "o", "p", "q", "r", "s", "t", "u", "v", "w", "x", "y", "z"}
Upper == {"A", "B", "C", "D", "E", "F", "G", "H", "I", "J", "K", "L", "M",
          "N", "O", "P", "Q", "R", "S", "T", "U", "V", "W", "X", "Y", "Z"}
Letters == Lower \cup Upper
\* \s of the name pattern: the space stands for every white-space character
Spaces == {" "}

AllIn(s, C) == \A i \in 1..Len(s) : s[i] \in C

\* s.endsWith(suffix)
EndsWith(s, suffix) ==
    /\ Len(s) >= Len(suffix)
    /\ SubSeq(s, Len(s) - Len(suffix) + 1, Len(s)) = suffix

\* s.replace(/[^C]/g, ''): the characters of s that are in C, in order
KeepOnly(s, C) == SelectSeq(s, LAMBDA c : c \in C)

\* -------------------------------------------------------------- the fields
TextFields == {"sender_name", "contact_name", "email"}
SelectFields == {"product_composition", "product_form", "language_code"}
PriceFields == {"price_cad", "price_gbp", "price_usd"}
\* publisherFields.querySelectorAll('input, select')
EnhancedFields == TextFields \cup SelectFields \cup PriceFields
ValueFields == {"epub_isbn"} \cup EnhancedFields
FileFields == {"epub_file", "onix_file"}
Roles == {"basic", "enhanced"}

\* an <input type=file> with no file chosen
NoFile == <<"(no file)">>
\* formData.get(name) when the form has no entry of that name
Null == <<"(null)">>
Empty == <<>>

\* the first <option> of each select: the value the markup starts with
FirstOption ==
    [f \in SelectFields |->
        CASE f = "product_composition" -> <<"0", "0">>
          [] f = "product_form" -> <<"E", "B">>
          [] f = "language_code" -> <<"e", "n", "g">>]

\* the <option> values of each select
EnumCodes ==
    [f \in SelectFields |->
        CASE f = "product_composition" ->
                 {<<"0", "0">>, <<"0", "1">>, <<"0", "2">>, <<"0", "3">>, <<"0", "4">>,
                  <<"0", "5">>, <<"0", "6">>, <<"0", "7">>, <<"0", "8">>, <<"0", "9">>,
                  <<"1", "0">>, <<"1", "1">>, <<"2", "0">>}
          [] f = "product_form" -> {<<"E", "B">>, <<"E", "C">>, <<"E", "D">>, <<"E", "F">>}
          [] f = "language_code" ->
                 {<<"e", "n", "g">>, <<"f", "r", "e">>, <<"s", "p", "a">>, <<"g", "e", "r">>,
                  <<"i", "t", "a">>, <<"p", "o", "r">>, <<"r", "u", "s">>, <<"c", "h", "i">>,
                  <<"j", "p", "n">>, <<"k", "o", "r">>}]

\* required attributes of the markup inside #publisher-fields: email only
MarkupRequired == [f \in EnhancedFields |-> f = "email"]

\* ------------------------------------------------------------- validators
\* mutant: 13 digits or more
validateISBN_AtLeast13(isbn) == Len(isbn) >= IsbnLength /\ AllIn(isbn, Digits)

\* /^\d{13}$/.test(isbn)
validateISBN(isbn) == Len(isbn) = IsbnLength /\ AllIn(isbn, Digits)

EmailLocalChars == Letters \cup Digits \cup {".", "_", "%", "+", "-"}
EmailDomainChars == Letters \cup Digits \cup {".", "-"}

\* /^[a-zA-Z0-9._%+-]+@[a-zA-Z0-9.-]+\.[a-zA-Z]{2,}$/.test(email)
validateEmail(email) ==
    \E at \in 1..Len(email) : \E dot \in 1..Len(email) :
        /\ email[at] = "@"
        /\ email[dot] = "."
        /\ at >= 2
        /\ AllIn(SubSeq(email, 1, at - 1), EmailLocalChars)
        /\ dot >= at + 2
        /\ AllIn(SubSeq(email, at + 1, dot - 1), EmailDomainChars)
        /\ Len(email) - dot >= 2
        /\ AllIn(SubSeq(email, dot + 1, Len(email)), Letters)

NameChars == Letters \cup Digits \cup Spaces \cup {"-", "'", "."}

\* mutant: the empty text passes
validateName_AllowsEmpty(name) == AllIn(name, NameChars)

\* /^[a-zA-Z0-9\s\-\'\.]+$/.test(name)
validateName(name) == Len(name) >= 1 /\ AllIn(name, NameChars)

\* mutant: a fraction of any length passes
validatePrice_AnyFraction(price) ==
    \/ Len(price) >= 1 /\ AllIn(price, Digits)
    \/ \E dot \in 1..Len(price) :
          /\ price[dot] = "."
          /\ dot >= 2
          /\ AllIn(SubSeq(price, 1, dot - 1), Digits)
          /\ Len(price) - dot >= 1
          /\ AllIn(SubSeq(price, dot + 1, Len(price)), Digits)

\* /^\d+(\.\d{1,2})?$/.test(price)
validatePrice(price) ==
    \/ Len(price) >= 1 /\ AllIn(price, Digits)
    \/ \E dot \in 1..Len(price) :
          /\ price[dot] = "."
          /\ dot >= 2
          /\ AllIn(SubSeq(price, 1, dot - 1), Digits)
          /\ Len(price) - dot \in {1, 2}
          /\ AllIn(SubSeq(price, dot + 1, Len(price)), Digits)

DotEpub == <<".", "e", "p", "u", "b">>
DotXml == <<".", "x", "m", "l">>

Ok == [valid |-> TRUE, message |-> ""]
Fail(m) == [valid |-> FALSE, message |-> m]

\* the arguments are File names, or Null for a missing entry
validateFiles(epubFile, onixFile) ==
    IF epubFile = Null \/ onixFile = Null
    THEN Fail("Both EPUB and ONIX files are required")
    ELSE IF ~EndsWith(epubFile, DotEpub)
    THEN Fail("Invalid EPUB file format")
    ELSE IF ~EndsWith(onixFile, DotXml)
    THEN Fail("Invalid ONIX file format")
    ELSE Ok

\* currency.toUpperCase()
toUpperCase(currency) ==
    CASE currency = "cad" -> "CAD"
      [] currency = "gbp" -> "GBP"
      [] currency = "usd" -> "USD"

PriceField(currency) ==
    CASE currency = "cad" -> "price_cad"
      [] currency = "gbp" -> "price_gbp"
      [] currency = "usd" -> "price_usd"

\* mutant: no price is looked at
validatePrices_NoCheck(formData, currencies) == Ok

\* the loop over ['cad', 'gbp', 'usd']: the first price that is non-empty
\* and malformed decides
RECURSIVE validatePrices(_, _)
validatePrices(formData, currencies) ==
    IF currencies = <<>>
    THEN Ok
    ELSE LET price == formData.value[PriceField(Head(currencies))]
         IN  IF price # Empty /\ price # Null /\ ~validatePrice(price)
             THEN Fail("Invalid " \o toUpperCase(Head(currencies)) \o " Price format")
             ELSE validatePrices(formData, Tail(currencies))

validateEnhancedFields(formData) ==
    IF ~validateName(formData.value["sender_name"])
    THEN Fail("Invalid Sender Name format")
    ELSE IF ~validateName(formData.value["contact_name"])
    THEN Fail("Invalid Contact Name format")
    ELSE IF ~validateEmail(formData.value["email"])
    THEN Fail("Invalid Email format")
    ELSE validatePrices(formData, <<"cad", "gbp", "usd">>)

\* mutant: the files are checked before the ISBN
Validate_FilesFirst(formData) ==
    LET fileValidation ==
            validateFiles(formData.files["epub_file"], formData.files["onix_file"])
    IN  IF ~fileValidation.valid
        THEN fileValidation
        ELSE IF ~validateISBN(formData.value["epub_isbn"])
        THEN Fail("ISBN must be 13 digits")
        ELSE IF formData.role = "enhanced"
        THEN validateEnhancedFields(formData)
        ELSE Ok

\* the validation steps of handleFormSubmit, in the order of the code
Validate(formData) ==
    IF ~validateISBN(formData.value["epub_isbn"])
    THEN Fail("ISBN must be 13 digits")
    ELSE LET fileValidation ==
                 validateFiles(formData.files["epub_file"], formData.files["onix_file"])
         IN  IF ~fileValidation.valid
             THEN fileValidation
             ELSE IF formData.role = "enhanced"
             THEN validateEnhancedFields(formData)
             ELSE Ok

\* ------------------------------------------------------------- formatters
\* this.value.replace(/[^\d]/g, '').slice(0, 13)
formatISBN(raw) ==
    LET digits == KeepOnly(raw, Digits)
    IN  IF Len(digits) > IsbnLength THEN SubSeq(digits, 1, IsbnLength) ELSE digits

\* value.split('.')
RECURSIVE SplitDot(_, _)
SplitDot(s, cur) ==
    IF s = <<>>
    THEN <<cur>>
    ELSE IF Head(s) = "."
    THEN <<cur>> \o SplitDot(Tail(s), <<>>)
    ELSE SplitDot(Tail(s), Append(cur, Head(s)))

\* parts.join('')
RECURSIVE JoinAll(_)
JoinAll(parts) == IF parts = <<>> THEN <<>> ELSE Head(parts) \o JoinAll(Tail(parts))

\* mutant: the text is left as it is when it has more than one '.'
formatPrice_NoCollapse(raw) ==
    LET value == KeepOnly(raw, Digits \cup {"."})
        parts == SplitDot(value, <<>>)
    IN  IF Len(parts) = 2 /\ parts[2] # <<>> /\ Len(parts[2]) > 2
        THEN parts[1] \o <<".">> \o SubSeq(parts[2], 1, 2)
        ELSE value

formatPrice(raw) ==
    LET value == KeepOnly(raw, Digits \cup {"."})
        parts == SplitDot(value, <<>>)
    IN  IF Len(parts) > 2
        THEN parts[1] \o <<".">> \o JoinAll(Tail(parts))
        ELSE IF Len(parts) = 2 /\ parts[2] # <<>> /\ Len(parts[2]) > 2
        THEN parts[1] \o <<".">> \o SubSeq(parts[2], 1, 2)
        ELSE value

\* ------------------------------------------------------------------ state
VARIABLES
    loaded,         \* the DOMContentLoaded handler has run
    role,           \* value of the role select
    value,          \* value of the ISBN field and of every field of #publisher-fields
    files,          \* chosen file name of each file input, or NoFile
    required,       \* required flag of every field of #publisher-fields
    display,        \* style.display of #publisher-fields
    emailInvalid,   \* the email field carries the class is-invalid
    submitButton,   \* disabled and innerHTML of button[type=submit]
    spinner,        \* style.display of #spinner
    banners,        \* the error banners of the form, first child first
    requests,       \* the requests to /process that have not settled, in order
    downloads,      \* names of the downloads triggered, in order
    submits,        \* submit gestures so far
    inputs          \* input events so far

formVars == <<role, value, files, required, display, emailInvalid>>
uiVars == <<submitButton, spinner, banners>>
netVars == <<requests, downloads>>
vars == <<loaded, role, value, files, required, display, emailInvalid,
          submitButton, spinner, banners, requests, downloads, submits, inputs>>

GenerateOnix == "Generate ONIX"
Processing == "<span class=\"spinner\"></span> Processing..."

\* ----------------------------------------------------------- ui-controls
\* mutant: the values are left alone when the group is hidden
togglePublisherFields_NoClear(r) ==
    IF r = "enhanced"
    THEN /\ display' = "block"
         /\ required' = [f \in EnhancedFields |-> TRUE]
         /\ value' = value
    ELSE /\ display' = "none"
         /\ required' = [f \in EnhancedFields |-> FALSE]
         /\ value' = value

\* mutant: only the fields other than the prices are cleared
togglePublisherFields_KeepsPrices(r) ==
    IF r = "enhanced"
    THEN /\ display' = "block"
         /\ required' = [f \in EnhancedFields |-> TRUE]
         /\ value' = value
    ELSE /\ display' = "none"
         /\ required' = [f \in EnhancedFields |-> FALSE]
         /\ value' = [f \in ValueFields |->
                         IF f \in EnhancedFields \ PriceFields THEN Empty ELSE value[f]]

\* mutant: entering enhanced flips the required flags
togglePublisherFields_FlipsRequired(r) ==
    IF r = "enhanced"
    THEN /\ display' = "block"
         /\ required' = [f \in EnhancedFields |-> ~required[f]]
         /\ value' = value
    ELSE /\ display' = "none"
         /\ required' = [f \in EnhancedFields |-> FALSE]
         /\ value' = [f \in ValueFields |->
                         IF f \in EnhancedFields THEN Empty ELSE value[f]]

\* the assignments of togglePublisherFields, as one step
togglePublisherFields(r) ==
    IF r = "enhanced"
    THEN /\ display' = "block"
         /\ required' = [f \in EnhancedFields |-> TRUE]
         /\ value' = value
    ELSE /\ display' = "none"
         /\ required' = [f \in EnhancedFields |-> FALSE]
         /\ value' = [f \in ValueFields |->
                         IF f \in EnhancedFields THEN Empty ELSE value[f]]

\* mutant: the busy label is set but the control is left enabled
showLoadingIndicator_LeftEnabled == [disabled |-> FALSE, innerHTML |-> Processing]

showLoadingIndicator == [disabled |-> TRUE, innerHTML |-> Processing]

hideLoadingIndicator == [disabled |-> FALSE, innerHTML |-> GenerateOnix]

\* mutant: the new banner is put after the others
showError_Appends(message) == banners \o <<[text |-> message, left |-> ErrorTimeout]>>

\* the banner list after showError(message): the new banner is the first
\* child, its removal is due in ErrorTimeout
showError(message) == <<[text |-> message, left |-> ErrorTimeout]>> \o banners

\* the value an input event leaves in a field: the ISBN and price fields
\* have a formatting listener, the others none
Formatted(f, raw) ==
    IF f = "epub_isbn" THEN formatISBN(raw)
    ELSE IF f \in PriceFields THEN formatPrice(raw)
    ELSE raw

\* ---------------------------------------------------------------- utils
Instants == {"T1", "T2"}

\* Date.prototype.toISOString for the instants of the model
toISOString(now) ==
    CASE now = "T1" -> <<"2", "0", "2", "4", "-", "0", "1", "-", "1", "5", "T",
                         "1", "0", ":", "3", "0", ":", "4", "5", ".", "1", "2", "3", "Z">>
      [] now = "T2" -> <<"2", "0", "2", "4", "-", "0", "1", "-", "1", "5", "T",
                         "1", "0", ":", "3", "1", ":", "0", "0", ".", "0", "0", "0", "Z">>

\* mutant: only the colons are removed
formatDate_ColonsOnly(iso) == SelectSeq(iso, LAMBDA c : c # ":")

\* s.replace(/[:.]/g, '')
formatDate(iso) == SelectSeq(iso, LAMBDA c : c \notin {":", "."})

FilePrefix == <<"A", "c", "c", "e", "s", "s", "O", "N", "I", "X", "_">>

\* mutant: no separator between the ISBN and the timestamp
getDownloadFilename_NoSeparator(now) ==
    FilePrefix \o value["epub_isbn"] \o formatDate(toISOString(now)) \o DotXml

\* reads the ISBN field as it is when the download is triggered
getDownloadFilename(now) ==
    FilePrefix \o value["epub_isbn"] \o <<"_">> \o formatDate(toISOString(now)) \o DotXml

\* ----------------------------------------------------- inputs of the model
GoodIsbn == <<"9", "7", "8", "1", "2", "3", "4", "5", "6", "7", "8", "9", "7">>

\* what the user may leave in a field's buffer by typing or choosing
RawInputs(f) ==
    CASE f = "epub_isbn" -> {GoodIsbn, <<"9", "7", "8", "-", "1", "2", "3", "4", "5">>}
      [] f = "sender_name" -> {<<"D", "P", "S", " ", "I", "n", "c", ".">>, <<"A", "&", "B">>}
      [] f = "contact_name" -> {<<"A", "l">>}
      [] f = "email" -> {<<"a", "@", "b", ".", "c", "o">>, <<"a", "@", "b">>}
      [] f = "price_cad" -> {<<"1", ".">>}
      [] f = "price_gbp" -> {<<"1", "2", ".", "9", "9", "9">>, <<"1", "2", ".">>}
      [] f = "price_usd" -> {<<".", "5">>}
      [] f \in SelectFields -> {}

\* the files the user may choose
FileChoices(f) ==
    CASE f = "epub_file" -> {<<"b", ".", "e", "p", "u", "b">>, <<"b", ".", "p", "d", "f">>}
      [] f = "onix_file" -> {<<"o", ".", "x", "m", "l">>, <<"o", ".", "t", "x", "t">>}

\* ------------------------------------------------------ the server's answers
NoData == [hasError |-> FALSE, error |-> "", hasErrors |-> FALSE, errors |-> <<>>]

\* JSON bodies of a non-2xx answer: {error}, {errors}, both, neither
JsonData ==
    { [hasError |-> TRUE, error |-> "Invalid EPUB", hasErrors |-> FALSE, errors |-> <<>>],
      [hasError |-> TRUE, error |-> "", hasErrors |-> FALSE, errors |-> <<>>],
      [hasError |-> FALSE, error |-> "", hasErrors |-> TRUE,
       errors |-> <<"Bad ISBN", "Bad email">>],
      [hasError |-> TRUE, error |-> "", hasErrors |-> TRUE, errors |-> <<"Bad ISBN">>],
      [hasError |-> TRUE, error |-> "Invalid EPUB", hasErrors |-> TRUE,
       errors |-> <<"Bad ISBN">>],
      NoData }

\* a 2xx answer carries the generated document, which arrives whole
\* ("binary") or breaks off with the connection ("broken"); any other answer
\* carries a JSON body or a body that is not JSON ("text", an error page)
Responses ==
    {[ok |-> TRUE, kind |-> k, data |-> NoData] : k \in {"binary", "broken"}}
        \cup {[ok |-> FALSE, kind |-> "json", data |-> d] : d \in JsonData}
        \cup {[ok |-> FALSE, kind |-> "text", data |-> NoData]}

NoResponse == [ok |-> FALSE, kind |-> "none", data |-> NoData]

\* error.message of the exceptions the runtime raises
FetchFailedMessage == "Failed to fetch"
BodyFailedMessage == "network error"
JsonSyntaxMessage == "Unexpected token < in JSON at position 0"
JoinUndefinedMessage == "Cannot read properties of undefined (reading 'join')"

\* mutant: the strings are joined last to first
RECURSIVE JoinLines_Reversed(_)
JoinLines_Reversed(errors) ==
    IF errors = <<>> THEN ""
    ELSE IF Len(errors) = 1 THEN Head(errors)
    ELSE JoinLines_Reversed(Tail(errors)) \o "\n" \o Head(errors)

\* errors.join('\n')
RECURSIVE JoinLines(_)
JoinLines(errors) ==
    IF errors = <<>> THEN ""
    ELSE IF Len(errors) = 1 THEN Head(errors)
    ELSE Head(errors) \o "\n" \o JoinLines(Tail(errors))

\* message of the error submitForm throws for a parsed body:
\* new Error(data.error || data.errors.join('\n')); an absent or empty
\* error is falsy, and join on an absent errors raises a TypeError
RejectionMessage(data) ==
    IF data.hasError /\ data.error # ""
    THEN data.error
    ELSE IF data.hasErrors
    THEN JoinLines(data.errors)
    ELSE JoinUndefinedMessage

\* new FormData(e.target): a file input without a file gives a File with an
\* empty name, a select without a selected option gives no entry
FormData ==
    [role |-> role,
     files |-> [f \in FileFields |-> IF files[f] = NoFile THEN Empty ELSE files[f]],
     value |-> [f \in ValueFields |->
                   IF f \in SelectFields /\ value[f] = Empty THEN Null ELSE value[f]]]

\* ------------------------------------------------------------------- Init
\* the page as the markup gives it, before DOMContentLoaded
Init ==
    /\ loaded = FALSE
    /\ role = "basic"
    /\ value = [f \in ValueFields |-> IF f \in SelectFields THEN FirstOption[f] ELSE Empty]
    /\ files = [f \in FileFields |-> NoFile]
    /\ required = MarkupRequired
    /\ display = "none"
    /\ emailInvalid = FALSE
    /\ submitButton = [disabled |-> FALSE, innerHTML |-> GenerateOnix]
    /\ spinner = "none"
    /\ banners = <<>>
    /\ requests = <<>>
    /\ downloads = <<>>
    /\ submits = 0
    /\ inputs = 0

\* ---------------------------------------------------------------- actions
\* main.js: togglePublisherFields(roleSelect.value), then the listeners
DOMContentLoaded ==
    /\ ~loaded
    /\ loaded' = TRUE
    /\ togglePublisherFields(role)
    /\ UNCHANGED <<role, files, emailInvalid, uiVars, netVars, submits, inputs>>

\* change event of the role select; an event dispatched on the select
\* without a new choice carries the value the select already has
ChangeRole(r) ==
    /\ loaded
    /\ role' = r
    /\ togglePublisherFields(r)
    /\ UNCHANGED <<loaded, files, emailInvalid, uiVars, netVars, submits, inputs>>

\* input event of a text field, or the user picking an option of a select
UserInput(f, raw) ==
    /\ loaded
    /\ f \in EnhancedFields => display = "block"
    /\ value' = [value EXCEPT ![f] = Formatted(f, raw)]
    /\ emailInvalid' = IF f = "email" THEN ~validateEmail(raw) ELSE emailInvalid
    /\ inputs' = inputs + 1
    /\ UNCHANGED <<loaded, role, files, required, display, uiVars, netVars, submits>>

\* the user chooses a file
ChooseFile(f, name) ==
    /\ loaded
    /\ files' = [files EXCEPT ![f] = name]
    /\ inputs' = inputs + 1
    /\ UNCHANGED <<loaded, role, value, required, display, emailInvalid,
                   uiVars, netVars, submits>>

NewRequest(formData) ==
    [formData |-> formData, phase |-> "fetching", response |-> NoResponse]

\* submit event: the inline listener of the template shows #spinner, and
\* handleFormSubmit runs up to its first await
Submit ==
    /\ loaded
    /\ ~submitButton.disabled
    /\ submits' = submits + 1
    /\ spinner' = "inline-block"
    /\ LET validation == Validate(FormData)
       IN  IF ~validation.valid
           THEN /\ banners' = showError(validation.message)
                /\ UNCHANGED <<submitButton, requests>>
           ELSE /\ submitButton' = showLoadingIndicator
                /\ requests' = Append(requests, NewRequest(FormData))
                /\ UNCHANGED banners
    /\ UNCHANGED <<loaded, formVars, downloads, inputs>>

\* handleFormSubmit returns: request i is no longer pending
Settled(i) == SubSeq(requests, 1, i - 1) \o SubSeq(requests, i + 1, Len(requests))

\* mutant: the request is sent again after the failure is shown
FetchRejects_Retries(i) ==
    /\ requests[i].phase = "fetching"
    /\ banners' = showError(FetchFailedMessage)
    /\ submitButton' = hideLoadingIndicator
    /\ requests' = requests
    /\ UNCHANGED <<loaded, formVars, spinner, downloads, submits, inputs>>

\* fetch rejects: catch shows error.message, finally restores the button
FetchRejects(i) ==
    /\ requests[i].phase = "fetching"
    /\ banners' = showError(FetchFailedMessage)
    /\ submitButton' = hideLoadingIndicator
    /\ requests' = Settled(i)
    /\ UNCHANGED <<loaded, formVars, spinner, downloads, submits, inputs>>

\* mutant: the control is restored as soon as the answer's head arrives
FetchResolves_RestoresEarly(i, response) ==
    /\ requests[i].phase = "fetching"
    /\ requests' = [requests EXCEPT
                       ![i].phase = IF response.ok THEN "reading_blob" ELSE "reading_json",
                       ![i].response = response]
    /\ submitButton' = [disabled |-> FALSE, innerHTML |-> GenerateOnix]
    /\ UNCHANGED <<loaded, formVars, spinner, banners, downloads, submits, inputs>>

\* fetch resolves: submitForm starts reading the body, as JSON when
\* !response.ok and as a blob otherwise
FetchResolves(i, response) ==
    /\ requests[i].phase = "fetching"
    /\ requests' = [requests EXCEPT
                       ![i].phase = IF response.ok THEN "reading_blob" ELSE "reading_json",
                       ![i].response = response]
    /\ UNCHANGED <<loaded, formVars, uiVars, downloads, submits, inputs>>

\* response.json() resolves: submitForm throws, catch shows the message
JsonResolves(i) ==
    /\ requests[i].phase = "reading_json"
    /\ requests[i].response.kind = "json"
    /\ banners' = showError(RejectionMessage(requests[i].response.data))
    /\ submitButton' = hideLoadingIndicator
    /\ requests' = Settled(i)
    /\ UNCHANGED <<loaded, formVars, spinner, downloads, submits, inputs>>

\* response.json() rejects on a body that is not JSON
JsonRejects(i) ==
    /\ requests[i].phase = "reading_json"
    /\ requests[i].response.kind = "text"
    /\ banners' = showError(JsonSyntaxMessage)
    /\ submitButton' = hideLoadingIndicator
    /\ requests' = Settled(i)
    /\ UNCHANGED <<loaded, formVars, spinner, downloads, submits, inputs>>

\* mutant: the form is reset after the download
BlobResolves_ResetsForm(i, now) ==
    /\ requests[i].phase = "reading_blob"
    /\ requests[i].response.kind = "binary"
    /\ downloads' = Append(downloads, getDownloadFilename(now))
    /\ submitButton' = hideLoadingIndicator
    /\ requests' = Settled(i)
    /\ value' = [f \in ValueFields |-> Empty]
    /\ files' = [f \in FileFields |-> NoFile]
    /\ UNCHANGED <<loaded, role, required, display, emailInvalid, spinner, banners,
                   submits, inputs>>

\* response.blob() resolves: downloadFile, then finally restores the button
BlobResolves(i, now) ==
    /\ requests[i].phase = "reading_blob"
    /\ requests[i].response.kind = "binary"
    /\ downloads' = Append(downloads, getDownloadFilename(now))
    /\ submitButton' = hideLoadingIndicator
    /\ requests' = Settled(i)
    /\ UNCHANGED <<loaded, formVars, spinner, banners, submits, inputs>>

\* response.blob() rejects: the connection fails while the body is read
BlobRejects(i) ==
    /\ requests[i].phase = "reading_blob"
    /\ requests[i].response.kind = "broken"
    /\ banners' = showError(BodyFailedMessage)
    /\ submitButton' = hideLoadingIndicator
    /\ requests' = Settled(i)
    /\ UNCHANGED <<loaded, formVars, spinner, downloads, submits, inputs>>

\* one second passes; a timer that is due fires before time goes on
Tick ==
    /\ banners # <<>>
    /\ \A i \in 1..Len(banners) : banners[i].left > 0
    /\ banners' = [i \in 1..Len(banners) |-> [banners[i] EXCEPT !.left = @ - 1]]
    /\ UNCHANGED <<loaded, formVars, submitButton, spinner, netVars, submits, inputs>>

\* the timer of showError fires: errorDiv.remove(); timers fire in the
\* order they were set, and older banners are further down the list
BannerTimeout ==
    /\ \E i \in 1..Len(banners) : banners[i].left = 0
    /\ LET due == {i \in 1..Len(banners) : banners[i].left = 0}
           last == CHOOSE i \in due : \A j \in due : j <= i
       IN  banners' = SubSeq(banners, 1, last - 1) \o SubSeq(banners, last + 1, Len(banners))
    /\ UNCHANGED <<loaded, formVars, submitButton, spinner, netVars, submits, inputs>>

\* what the user can do to the form
UserActs(maxInputs) ==
    \/ \E r \in Roles : ChangeRole(r)
    \/ /\ inputs < maxInputs
       /\ \/ \E f \in ValueFields : \E raw \in RawInputs(f) : UserInput(f, raw)
          \/ \E f \in FileFields : \E name \in FileChoices(f) : ChooseFile(f, name)

\* how an issued request goes on
RequestActs ==
    \E i \in 1..Len(requests) :
        \/ FetchRejects(i)
        \/ \E response \in Responses : FetchResolves(i, response)
        \/ JsonResolves(i)
        \/ JsonRejects(i)
        \/ \E now \in Instants : BlobResolves(i, now)
        \/ BlobRejects(i)

Next ==
    \/ DOMContentLoaded
    \/ UserActs(MaxInputs)
    \/ submits < MaxSubmits /\ Submit
    \/ RequestActs
    \/ Tick
    \/ BannerTimeout

Spec == Init /\ [][Next]_vars

\* the same page while no second passes: every action but the clock's,
\* with room for the longer input sequences a full enhanced form needs
NextForm ==
    \/ DOMContentLoaded
    \/ UserActs(MaxFormInputs)
    \/ submits < MaxFormSubmits /\ Submit
    \/ RequestActs

SpecForm == Init /\ [][NextForm]_vars

\* ------------------------------------------------------------ filled forms
\* every text over the alphabet A of at most n characters
Strings(A, n) == UNION {[1..k -> A] : k \in 0..n}

IsbnStem == <<"9", "7", "8", "1", "2", "3", "4", "5", "6", "7">>

\* the fields whose content is filled in, and the texts they are filled
\* with: a value set by a script, by the browser's autofill or restored by
\* the browser raises no input event, so that no listener has formatted it
FillFields == {"epub_isbn", "sender_name", "price_gbp"}

Fills(f) ==
    CASE f = "epub_isbn" ->
             {IsbnStem \o t : t \in Strings({"7", "a"}, MaxFillLen)}
                 \cup {<<"9", "7", "8", "1", "2", "3", "4", "5">>, Empty}
      [] f = "sender_name" -> Strings({"A", "1", " ", "'", "&"}, MaxNameLen)
      [] f = "price_gbp" ->
             Strings({"1", ".", "a"}, MaxFillLen)
                 \cup {<<"1", "2", ".", "3", ".", "4", ".", "5">>,
                       <<"1", "2", ".", "9", "9", "9">>,
                       <<"1", "2", ".", "5">>, <<"1", "2", ".">>, <<".", "5">>}

\* an enhanced form filled in with values that pass every check; the selects
\* are empty since the page-load pass
ValidForm ==
    [f \in ValueFields |->
        CASE f = "epub_isbn" -> GoodIsbn
          [] f = "sender_name" -> <<"D", "P", "S", " ", "I", "n", "c", ".">>
          [] f = "contact_name" -> <<"A", "l">>
          [] f = "email" -> <<"a", "@", "b", ".", "c", "o">>
          [] OTHER -> Empty]

ValidFiles ==
    [f \in FileFields |->
        IF f = "epub_file" THEN <<"b", ".", "e", "p", "u", "b">>
        ELSE <<"o", ".", "x", "m", "l">>]

\* the loaded page in enhanced mode with the form filled in, one field
\* holding a text that was filled in without an input event
InitFill ==
    /\ loaded = TRUE
    /\ role = "enhanced"
    /\ \E f \in FillFields : \E s \in Fills(f) : value = [ValidForm EXCEPT ![f] = s]
    /\ files = ValidFiles
    /\ required = [f \in EnhancedFields |-> TRUE]
    /\ display = "block"
    /\ emailInvalid = FALSE
    /\ submitButton = [disabled |-> FALSE, innerHTML |-> GenerateOnix]
    /\ spinner = "none"
    /\ banners = <<>>
    /\ requests = <<>>
    /\ downloads = <<>>
    /\ submits = 0
    /\ inputs = 0

\* the fields with an input listener that rewrites the value
ListenerFields == {"epub_isbn"} \cup PriceFields

\* an input event reaches field f with the content it has: the listener
\* reads this.value and writes the formatted text back
InputEvent(f) ==
    /\ loaded
    /\ f \in EnhancedFields => display = "block"
    /\ value' = [value EXCEPT ![f] = Formatted(f, value[f])]
    /\ inputs' = inputs + 1
    /\ UNCHANGED <<loaded, role, files, required, display, emailInvalid,
                   uiVars, netVars, submits>>

NextFill ==
    \/ inputs < MaxFillEvents /\ \E f \in ListenerFields : InputEvent(f)
    \/ submits < MaxFillSubmits /\ Submit
    \/ RequestActs

SpecFill == InitFill /\ [][NextFill]_vars

\* ------------------------------------------------------------- the timers
\* the page with its clock, submitted as it is loaded: every gesture is
\* refused and shows a banner.  Time passes and due timers fire (weak
\* fairness: the browser's clock runs, and its event loop runs the callback
\* of a timer that is due).
NextTimers ==
    \/ DOMContentLoaded
    \/ submits < MaxTimerSubmits /\ Submit
    \/ Tick
    \/ BannerTimeout

SpecTimers == Init /\ [][NextTimers]_vars /\ WF_vars(Tick) /\ WF_vars(BannerTimeout)

\* ================================================================ claims
\* UIState of the data model: idle or submitting, read off the submit control
UIState == IF submitButton.disabled THEN "submitting" ELSE "idle"

\* a busy indicator is on the page: the spinner element is displayed or the
\* submit control carries the busy label
BusyIndicatorVisible == spinner # "none" \/ submitButton.innerHTML = Processing

\* the step is a submit gesture
SubmitGesture == submits' = submits + 1

\* the messages of the validation rules
ValidationMessages ==
    {"ISBN must be 13 digits", "Both EPUB and ONIX files are required",
     "Invalid EPUB file format", "Invalid ONIX file format",
     "Invalid Sender Name format", "Invalid Contact Name format", "Invalid Email format",
     "Invalid CAD Price format", "Invalid GBP Price format", "Invalid USD Price format"}

\* C1: a submit gesture whose validation fails issues no request and brings
\* up no busy state (the control stays idle and no busy indicator appears);
\* every request issued carries values that pass the whole pipeline.
C1_InvalidSubmitStaysIdle ==
    [][/\ (SubmitGesture /\ ~Validate(FormData).valid) =>
              /\ requests' = requests
              /\ UIState' = "idle"
              /\ BusyIndicatorVisible' => BusyIndicatorVisible
       /\ \A i \in 1..Len(requests') : Validate(requests'[i].formData).valid]_vars

\* a submission has come to an end: no request is pending and the page shows
\* the trace of one, a download or a banner that no validation rule wrote
SubmissionEnded ==
    /\ requests = <<>>
    /\ \/ downloads # <<>>
       \/ \E i \in 1..Len(banners) : banners[i].text \notin ValidationMessages

\* C2: after every exit of a submission (download, server rejection,
\* transport failure, malformed body) the UI is idle again: the submit
\* control is enabled, its label restored, and no busy indicator is visible.
C2_IdleAfterEveryExit ==
    SubmissionEnded =>
        /\ UIState = "idle"
        /\ submitButton.innerHTML = GenerateOnix
        /\ ~BusyIndicatorVisible

\* C3: at most one request to the processing endpoint is in flight.
C3_SingleFlight == Len(requests) <= 1

\* a second gesture's request is in flight, issued in basic mode, and the
\* user has changed the mode since
C3_Witness ==
    /\ submits = 2
    /\ Len(requests) = 1
    /\ requests[1].formData.role = "basic"
    /\ role = "enhanced"

\* C4: while a request is issued and not settled, its body being read
\* included, UIState is submitting and the submit control is disabled.
C4_DisabledWhileInFlight ==
    requests # <<>> =>
        /\ UIState = "submitting"
        /\ submitButton = [disabled |-> TRUE, innerHTML |-> Processing]

\* the body of an answered request is being read
C4_Witness ==
    /\ requests # <<>>
    /\ requests[1].phase \in {"reading_blob", "reading_json"}
    /\ submitButton.disabled

\* the checks of the pipeline in the order the claim fixes
CheckOrder == <<"isbn", "files", "sender", "contact", "email", "cad", "gbp", "usd">>

\* check c applies to the form data and fails on it
CheckFails(fd, c) ==
    CASE c = "isbn" -> ~validateISBN(fd.value["epub_isbn"])
      [] c = "files" -> ~validateFiles(fd.files["epub_file"], fd.files["onix_file"]).valid
      [] c = "sender" -> fd.role = "enhanced" /\ ~validateName(fd.value["sender_name"])
      [] c = "contact" -> fd.role = "enhanced" /\ ~validateName(fd.value["contact_name"])
      [] c = "email" -> fd.role = "enhanced" /\ ~validateEmail(fd.value["email"])
      [] c \in {"cad", "gbp", "usd"} ->
            /\ fd.role = "enhanced"
            /\ fd.value[PriceField(c)] \notin {Empty, Null}
            /\ ~validatePrice(fd.value[PriceField(c)])

\* the messages that belong to check c
CheckMessages(c) ==
    CASE c = "isbn" -> {"ISBN must be 13 digits"}
      [] c = "files" -> {"Both EPUB and ONIX files are required",
                         "Invalid EPUB file format", "Invalid ONIX file format"}
      [] c = "sender" -> {"Invalid Sender Name format"}
      [] c = "contact" -> {"Invalid Contact Name format"}
      [] c = "email" -> {"Invalid Email format"}
      [] c = "cad" -> {"Invalid CAD Price format"}
      [] c = "gbp" -> {"Invalid GBP Price format"}
      [] c = "usd" -> {"Invalid USD Price format"}

FailingChecks(fd) == {k \in 1..Len(CheckOrder) : CheckFails(fd, CheckOrder[k])}

\* C5: a validation pass that fails surfaces exactly one message, the one of
\* the first failing check in the order ISBN, files, sender name, contact
\* name, email, CAD, GBP, USD price (the last six in enhanced mode only); a
\* pass that fails nowhere surfaces none.
C5_FailFastOrdered ==
    [][SubmitGesture =>
          LET failing == FailingChecks(FormData)
          IN  IF failing = {}
              THEN banners' = banners
              ELSE LET first == CHOOSE k \in failing : \A j \in failing : k <= j
                   IN  /\ Len(banners') = Len(banners) + 1
                       /\ Tail(banners') = banners
                       /\ banners'[1].text \in CheckMessages(CheckOrder[first])]_vars

\* the email message was surfaced for an enhanced form whose USD price
\* fails as well
C5_Witness ==
    /\ banners # <<>>
    /\ banners[1].text = "Invalid Email format"
    /\ submits = 1
    /\ role = "enhanced"
    /\ value["price_usd"] # Empty
    /\ ~validatePrice(value["price_usd"])

\* the enhanced-only fields are inert: not required and empty
EnhancedInert == \A f \in EnhancedFields : ~required[f] /\ value[f] = Empty

\* C6: whenever role = basic, from the page-load pass on, every
\* enhanced-only field is not required and empty, and no request sent with
\* role = basic carries a non-empty enhanced value.
C6_BasicIsInert ==
    /\ (loaded /\ role = "basic") => EnhancedInert
    /\ \A i \in 1..Len(requests) :
          requests[i].formData.role = "basic" =>
              \A f \in EnhancedFields : requests[i].formData.value[f] \in {Empty, Null}

\* a basic request is in flight after the user had typed an email address
\* in enhanced mode (the is-invalid mark of that input is still there)
C6_Witness ==
    /\ loaded
    /\ role = "basic"
    /\ emailInvalid
    /\ requests # <<>>
    /\ requests[1].formData.role = "basic"

\* C7: leaving enhanced mode clears the group, so that coming back to
\* enhanced after basic finds every field of the group empty, price fields
\* included.
C7_ClearedOnExit ==
    [][/\ (role = "enhanced" /\ role' = "basic") =>
              \A f \in EnhancedFields : value'[f] = Empty
       /\ (role = "basic" /\ role' = "enhanced") =>
              \A f \in EnhancedFields : value'[f] = Empty]_vars

\* one input went into the enhanced group (the ISBN and the files are
\* untouched), and after basic and back the group is empty
C7_Witness ==
    /\ role = "enhanced"
    /\ inputs = 1
    /\ value["epub_isbn"] = Empty
    /\ \A f \in FileFields : files[f] = NoFile
    /\ \A f \in EnhancedFields : value[f] = Empty

\* the strings the server declares in the error and errors fields of its
\* bodies: an error string as it is, an errors list joined by newlines
ServerDeclaredMessages ==
    {d.error : d \in {x \in JsonData : x.hasError}}
        \cup {JoinLines(d.errors) : d \in {x \in JsonData : x.hasErrors}}

\* C8: every message passed to the Notifier is a string of a validation
\* rule or of the server's declared error / errors fields, never the text
\* of a raw exception.
C8_OnlyDeclaredMessages ==
    \A i \in 1..Len(banners) :
        banners[i].text \in ValidationMessages \cup ServerDeclaredMessages

\* the step in which response.json() of the pending request resolves
JsonResolved ==
    /\ requests # <<>>
    /\ requests[1].phase = "reading_json"
    /\ requests[1].response.kind = "json"
    /\ requests' = Tail(requests)

\* exactly one Notifier call, with this message
NotifiedOnce(message) ==
    /\ Len(banners') = Len(banners) + 1
    /\ Tail(banners') = banners
    /\ banners'[1].text = message

TwoErrors == <<"Bad ISBN", "Bad email">>

\* C9 as stated: a body with an error string gives that string; otherwise a
\* body with an errors list gives its strings joined by newline in order
\* (["Bad ISBN", "Bad email"] gives "Bad ISBN\nBad email"); one Notifier
\* call per rejection.
C9_AsStated ==
    [][JsonResolved =>
          LET data == requests[1].response.data
          IN  /\ data.hasError => NotifiedOnce(data.error)
              /\ (~data.hasError /\ data.hasErrors) => NotifiedOnce(JoinLines(data.errors))
              /\ (~data.hasError /\ data.errors = TwoErrors) =>
                     NotifiedOnce("Bad ISBN\nBad email")
              /\ Len(banners') = Len(banners) + 1]_vars

\* What holds of C9: a body with a non-empty error string gives that
\* string; with error absent or empty, a body with an errors list gives its
\* strings joined by newline in order; one Notifier call per rejection.
C9_NonEmptyErrorElseErrors ==
    [][JsonResolved =>
          LET data == requests[1].response.data
              usable == data.hasError /\ data.error # ""
          IN  /\ usable => NotifiedOnce(data.error)
              /\ (~usable /\ data.hasErrors) => NotifiedOnce(JoinLines(data.errors))
              /\ (~usable /\ data.errors = TwoErrors) => NotifiedOnce("Bad ISBN\nBad email")
              /\ Len(banners') = Len(banners) + 1]_vars

\* the two strings of an errors list were just shown as one banner
C9_Witness ==
    /\ banners # <<>>
    /\ banners[1] = [text |-> "Bad ISBN\nBad email", left |-> ErrorTimeout]
    /\ requests = <<>>
    /\ UIState = "idle"

\* timestamps the instants of the model give: ISO-8601 without ':' and '.'
ExpectedStamps ==
    {<<"2", "0", "2", "4", "-", "0", "1", "-", "1", "5", "T",
       "1", "0", "3", "0", "4", "5", "1", "2", "3", "Z">>,
     <<"2", "0", "2", "4", "-", "0", "1", "-", "1", "5", "T",
       "1", "0", "3", "1", "0", "0", "0", "0", "0", "Z">>}

\* names of the pattern AccessONIX_{isbn}_{timestamp}.xml for this ISBN
PatternNames(isbn) ==
    {<<"A", "c", "c", "e", "s", "s", "O", "N", "I", "X", "_">> \o isbn \o <<"_">>
         \o stamp \o <<".", "x", "m", "l">> : stamp \in ExpectedStamps}

\* the pending request was sent in basic mode
BasicPending == requests # <<>> /\ requests[1].formData.role = "basic"

\* C10: a valid basic submission answered 2xx with its binary body triggers
\* exactly one download, named AccessONIX_{isbn}_{timestamp}.xml with the
\* ISBN field's value, calls the Notifier at no point from the gesture to
\* the download, and leaves UIState idle.
C10_BasicSuccessDownloads ==
    [][/\ (SubmitGesture /\ FormData.role = "basic" /\ Len(requests') > Len(requests)) =>
              banners' = banners
       /\ (BasicPending /\ requests' # <<>>) => Len(banners') <= Len(banners)
       /\ (/\ BasicPending
           /\ requests[1].phase = "reading_blob"
           /\ requests[1].response.kind = "binary"
           /\ requests' = Tail(requests)) =>
              /\ Len(downloads') = Len(downloads) + 1
              /\ SubSeq(downloads', 1, Len(downloads)) = downloads
              /\ downloads'[Len(downloads')] \in PatternNames(value["epub_isbn"])
              /\ banners' = banners
              /\ UIState' = "idle"
              /\ submitButton'.innerHTML = GenerateOnix]_vars

\* one basic submission has ended in a download and nothing was notified
C10_Witness ==
    /\ submits = 1
    /\ role = "basic"
    /\ Len(downloads) = 1
    /\ requests = <<>>
    /\ banners = <<>>
    /\ UIState = "idle"

\* ------------------------------------------------------------ C11 .. C20
\* C11: the Field Formatter is idempotent: formatting the output of the ISBN
\* formatter (of the currency formatter) again returns it unchanged,
\* format(format(s)) = format(s), for every text a field can hold.
C11_FormattersIdempotent ==
    \A f \in ListenerFields :
        Formatted(f, Formatted(f, value[f])) = Formatted(f, value[f])

\* number of '.' in s
Dots(s) == Len(KeepOnly(s, {"."}))

\* position of the first '.' of s
FirstDot(s) == CHOOSE i \in 1..Len(s) : s[i] = "." /\ \A j \in 1..(i - 1) : s[j] # "."

\* currency formatting as C12 words it
CollapsedPrice(s) ==
    LET kept == KeepOnly(s, Digits \cup {"."})
    IN  IF Dots(kept) = 0 THEN kept
        ELSE LET whole == SubSeq(kept, 1, FirstDot(kept) - 1)
                 rest == SubSeq(kept, FirstDot(kept) + 1, Len(kept))
             IN  IF Dots(kept) > 1 THEN whole \o <<".">> \o KeepOnly(rest, Digits)
                 ELSE IF Len(rest) > 2 THEN whole \o <<".">> \o SubSeq(rest, 1, 2)
                 ELSE kept

ThirteenDigits(s) == Len(s) = 13 /\ KeepOnly(s, Digits) = s

\* C13: the ISBN validator returns true iff the text has length exactly 13
\* and every character is a decimal digit; "9781234567897" is valid,
\* "97812345" and "978123456789a" are invalid.  A submit gesture issues a
\* request only for such an ISBN and reports any other.
C13_IsbnValidator ==
    /\ [](/\ validateISBN(value["epub_isbn"]) <=> ThirteenDigits(value["epub_isbn"])
          /\ validateISBN(<<"9", "7", "8", "1", "2", "3", "4", "5", "6", "7", "8", "9", "7">>)
          /\ ~validateISBN(<<"9", "7", "8", "1", "2", "3", "4", "5">>)
          /\ ~validateISBN(<<"9", "7", "8", "1", "2", "3", "4", "5", "6", "7", "8", "9", "a">>))
    /\ [][SubmitGesture =>
              IF ThirteenDigits(value["epub_isbn"])
              THEN banners' = banners \/ banners'[1].text # "ISBN must be 13 digits"
              ELSE /\ requests' = requests
                   /\ banners' = <<[text |-> "ISBN must be 13 digits",
                                    left |-> ErrorTimeout]>> \o banners]_vars

\* a text of 13 characters, one of them a letter, was submitted and reported
C13_Witness ==
    /\ submits = 1
    /\ value["epub_isbn"] = IsbnStem \o <<"7", "7", "a">>
    /\ requests = <<>>
    /\ banners # <<>>
    /\ banners[1].text = "ISBN must be 13 digits"

\* the price predicate as C14 words it: empty, or an optional integer part
\* followed by an optional '.' with one or two fraction digits
PriceAsStated(s) ==
    \/ s = Empty
    \/ AllIn(s, Digits)
    \/ \E dot \in 1..Len(s) :
          /\ s[dot] = "."
          /\ AllIn(SubSeq(s, 1, dot - 1), Digits)
          /\ Len(s) - dot \in {1, 2}
          /\ AllIn(SubSeq(s, dot + 1, Len(s)), Digits)

\* C14: the price validator returns true iff the text is empty, or is an
\* optional integer part followed by an optional '.' with 1 to 2 fraction
\* digits: "" and ".5" are valid, "12.999" and "12." are invalid.
C14_PriceValidator ==
    /\ \A f \in PriceFields : validatePrice(value[f]) <=> PriceAsStated(value[f])
    /\ validatePrice(Empty)
    /\ validatePrice(<<".", "5">>)
    /\ ~validatePrice(<<"1", "2", ".", "9", "9", "9">>)
    /\ ~validatePrice(<<"1", "2", ".">>)

\* every character is alphanumeric, white space, hyphen, apostrophe or period
OnlyNameCharacters(s) ==
    \A i \in 1..Len(s) : s[i] \in Letters \cup Digits \cup {" ", "-", "'", "."}

\* the step is a submit gesture that reports this message
Reports(message) ==
    /\ SubmitGesture
    /\ requests' = requests
    /\ banners' = <<[text |-> message, left |-> ErrorTimeout]>> \o banners

\* C15 as stated: the name validator returns true iff every character of
\* the text is alphanumeric, white space, hyphen, apostrophe or period, so
\* that in enhanced mode a name is rejected only for some other character.
C15_AsStated ==
    /\ [](validateName(value["sender_name"]) <=> OnlyNameCharacters(value["sender_name"]))
    /\ [][(SubmitGesture /\ role = "enhanced" /\ ThirteenDigits(value["epub_isbn"])
               /\ OnlyNameCharacters(value["sender_name"]))
              => ~Reports("Invalid Sender Name format")]_vars

\* C15 amended: the name validator returns true iff the text is not empty
\* and every character is alphanumeric, white space, hyphen, apostrophe or
\* period; in enhanced mode a sender name is rejected exactly when it is
\* empty or contains some other character.
C15_NonEmptyNameCharacters ==
    /\ [](validateName(value["sender_name"])
              <=> (value["sender_name"] # Empty /\ OnlyNameCharacters(value["sender_name"])))
    /\ [][(SubmitGesture /\ role = "enhanced" /\ ThirteenDigits(value["epub_isbn"]))
              => (Reports("Invalid Sender Name format")
                     <=> (value["sender_name"] = Empty
                             \/ ~OnlyNameCharacters(value["sender_name"])))]_vars

\* an empty sender name was submitted in enhanced mode and reported
C15_Witness ==
    /\ submits = 1
    /\ role = "enhanced"
    /\ value["sender_name"] = Empty
    /\ requests = <<>>
    /\ banners # <<>>
    /\ banners[1].text = "Invalid Sender Name format"

\* enhanced mode with every field but price_gbp valid
OthersValid ==
    /\ role = "enhanced"
    /\ files = ValidFiles
    /\ [value EXCEPT !["price_gbp"] = Empty] = ValidForm

Gbp12999 == <<"1", "2", ".", "9", "9", "9">>
Gbp1299 == <<"1", "2", ".", "9", "9">>

\* C16: in enhanced mode with every other field valid: an input event on
\* price_gbp holding "12.999" leaves "12.99", and a submit gesture with
\* "12.99" passes validation and sends the request; a submit gesture with
\* "12.999" in the field (no formatter has run) is rejected with 'Invalid
\* GBP Price format' and sends no request.
C16_ValidationBehindFormatter ==
    /\ [](Formatted("price_gbp", Gbp12999) = Gbp1299)
    /\ [][/\ (/\ inputs' = inputs + 1
              /\ value["price_gbp"] = Gbp12999
              /\ value'["price_gbp"] # value["price_gbp"]) =>
                 (value'["price_gbp"] = Gbp1299)
          /\ (SubmitGesture /\ OthersValid /\ value["price_gbp"] = Gbp1299) =>
                 (/\ requests' = Append(requests, NewRequest(FormData))
                  /\ banners' = banners)
          /\ (SubmitGesture /\ OthersValid /\ value["price_gbp"] = Gbp12999) =>
                 Reports("Invalid GBP Price format")]_vars

\* "12.999" was in the field with no input event, and the submit gesture
\* was refused
C16_Witness ==
    /\ submits = 1
    /\ inputs = 0
    /\ OthersValid
    /\ value["price_gbp"] = Gbp12999
    /\ requests = <<>>
    /\ banners = <<[text |-> "Invalid GBP Price format", left |-> ErrorTimeout]>>

\* the ISO-8601 form of the instants of the model without ':' and '.'
StampAsStated(now) ==
    CASE now = "T1" -> <<"2", "0", "2", "4", "-", "0", "1", "-", "1", "5", "T",
                         "1", "0", "3", "0", "4", "5", "1", "2", "3", "Z">>
      [] now = "T2" -> <<"2", "0", "2", "4", "-", "0", "1", "-", "1", "5", "T",
                         "1", "0", "3", "1", "0", "0", "0", "0", "0", "Z">>

\* "AccessONIX_" + isbn + "_" + T + ".xml"
FilenameAsStated(isbn, now) ==
    <<"A", "c", "c", "e", "s", "s", "O", "N", "I", "X", "_">> \o isbn \o <<"_">>
        \o StampAsStated(now) \o <<".", "x", "m", "l">>

\* C17: the derived filename is a function of the ISBN and of the clock
\* instant alone: "AccessONIX_" + isbn + "_" + T + ".xml", T being the
\* ISO-8601 form of the instant with every ':' and '.' removed; whatever
\* else the page holds, the same two inputs give the same filename, and
\* every download carries the name derived at one of the instants.
C17_FilenameDerived ==
    /\ [](\A now \in Instants :
              getDownloadFilename(now) = FilenameAsStated(value["epub_isbn"], now))
    /\ [][Len(downloads') > Len(downloads) =>
              \E now \in Instants :
                  downloads' = Append(downloads, FilenameAsStated(value["epub_isbn"], now))]_vars

\* a download was named from the instant T2 and from an ISBN field edited
\* while the request was in flight
C17_Witness ==
    /\ downloads # <<>>
    /\ value["epub_isbn"] # GoodIsbn
    /\ downloads[Len(downloads)] = FilenameAsStated(value["epub_isbn"], "T2")

\* requests of the list that are waiting for the answer's head
Fetching(reqs) == Len(SelectSeq(reqs, LAMBDA r : r.phase = "fetching"))

\* C18: no retries and no cancellation: a submit gesture that passes
\* validation issues exactly one request and any other gesture none; no
\* other step issues a request or starts a fetch again, and a step that
\* reports a failure takes its request off the pending ones; the requests
\* issued never exceed the submit gestures.
C18_NoRetries ==
    /\ [](Len(requests) + Len(downloads) <= submits)
    /\ [][/\ SubmitGesture =>
                 IF Validate(FormData).valid
                 THEN requests' = Append(requests, NewRequest(FormData))
                 ELSE requests' = requests
          /\ ~SubmitGesture =>
                 /\ Len(requests') <= Len(requests)
                 /\ Fetching(requests') <= Fetching(requests)
                 /\ Len(banners') > Len(banners) => Len(requests') = Len(requests) - 1]_vars

\* a request has failed, the failure is on the page, nothing is pending and
\* the user has not submitted again
C18_Witness ==
    /\ submits = 1
    /\ requests = <<>>
    /\ downloads = <<>>
    /\ banners # <<>>
    /\ banners[1].text = FetchFailedMessage
    /\ UIState = "idle"

\* the banner list without its i-th banner
Without(i) == SubSeq(banners, 1, i - 1) \o SubSeq(banners, i + 1, Len(banners))

\* C19: each notify(message) call inserts exactly one banner, at the
\* first-child position, so that newer banners precede older ones; a banner
\* is removed once, 5 time units after its own insertion (its timer starts
\* at 5, every time unit takes one off every timer, no time unit passes
\* while a timer is at 0, and only a banner whose timer is at 0 is removed),
\* whatever the other banners and later submissions do; every banner is
\* eventually removed.
C19_BannerLifecycle ==
    /\ [](\A i \in 1..Len(banners) : \A j \in i..Len(banners) :
              banners[i].left >= banners[j].left)
    /\ [][/\ (SubmitGesture /\ ~Validate(FormData).valid) =>
                 banners' = <<[text |-> Validate(FormData).message,
                               left |-> ErrorTimeout]>> \o banners
          /\ Len(banners') > Len(banners) =>
                 /\ Tail(banners') = banners
                 /\ banners'[1].left = ErrorTimeout
          /\ Len(banners') < Len(banners) =>
                 \E i \in 1..Len(banners) :
                     banners[i].left = 0 /\ banners' = Without(i)
          /\ (Len(banners') = Len(banners) /\ banners' # banners) =>
                 \A i \in 1..Len(banners) :
                     /\ banners[i].left > 0
                     /\ banners'[i] = [banners[i] EXCEPT !.left = @ - 1]]_vars
    /\ (banners # <<>>) ~> (banners = <<>>)

\* three banners of three different ages, the newest first
C19_Witness ==
    /\ Len(banners) = 3
    /\ banners[1].left = ErrorTimeout
    /\ banners[2].left = 2
    /\ banners[3].left = 0

\* an enhanced form whose fields other than the prices are valid and whose
\* three prices are empty
EnhancedWithoutPrices ==
    /\ role = "enhanced"
    /\ validateISBN(value["epub_isbn"])
    /\ validateFiles(FormData.files["epub_file"], FormData.files["onix_file"]).valid
    /\ validateName(value["sender_name"])
    /\ validateName(value["contact_name"])
    /\ validateEmail(value["email"])
    /\ \A f \in PriceFields : value[f] = Empty

\* C20: the currency price fields are optional in every mode: after any
\* sequence of mode changes, the page-load pass included, price_cad,
\* price_gbp and price_usd are never marked required, and an enhanced
\* submission whose other fields are valid and whose prices are empty passes
\* validation and is sent.
C20_PricesOptional ==
    /\ [](\A f \in PriceFields : ~required[f])
    /\ [][(SubmitGesture /\ EnhancedWithoutPrices) =>
              requests' = Append(requests, NewRequest(FormData))]_vars

\* ------------------------------------------------------------ C21 .. C27
\* what one application of the Mode Controller with the mode of the role
\* select leaves: visibility and required flags of the mode, and an empty
\* group in basic mode
AsAfterApplication ==
    /\ display = IF role = "enhanced" THEN "block" ELSE "none"
    /\ \A f \in EnhancedFields : required[f] = (role = "enhanced")
    /\ role = "basic" => \A f \in EnhancedFields : value[f] = Empty

\* C21: Mode Controller re-entry is idempotent: the page is always as one
\* application with its mode leaves it, from the page-load call on, and
\* applying the controller again with the same mode (a change event that
\* keeps the role) leaves visibility, required flags and field values as
\* they are.
C21_ReentryIdempotent ==
    /\ [](loaded => AsAfterApplication)
    /\ [][(loaded /\ role' = role /\ inputs' = inputs) =>
              UNCHANGED <<display, required, value>>]_vars

\* enhanced mode with a name typed in, where a change event that keeps the
\* role can occur
C21_Witness ==
    /\ loaded
    /\ role = "enhanced"
    /\ value["sender_name"] # Empty
    /\ ENABLED ChangeRole("enhanced")

\* only digits and at most one '.', and at most two digits after the '.'
TwoDecimalShape(s) ==
    /\ AllIn(s, Digits \cup {"."})
    /\ Dots(s) <= 1
    /\ Dots(s) = 1 => Len(s) - FirstDot(s) <= 2

\* C22: after any input event on a currency field, for every raw buffer,
\* the value of the field contains only digits and at most one '.', and has
\* at most two digits after the '.'.
C22_TwoDecimalsAfterInput ==
    /\ [](\A f \in PriceFields : TwoDecimalShape(Formatted(f, value[f])))
    /\ [][\A f \in PriceFields :
              value'[f] # value[f] => TwoDecimalShape(value'[f])]_vars

\* the file check as C23 words it, for the files of the form
FileCheckAsStated ==
    IF files["epub_file"] = NoFile \/ files["onix_file"] = NoFile
    THEN Fail("Both EPUB and ONIX files are required")
    ELSE IF ~EndsWith(files["epub_file"], <<".", "e", "p", "u", "b">>)
    THEN Fail("Invalid EPUB file format")
    ELSE IF ~EndsWith(files["onix_file"], <<".", "x", "m", "l">>)
    THEN Fail("Invalid ONIX file format")
    ELSE Ok

\* C23: the file check reports, in this order: 'Both EPUB and ONIX files are
\* required' when either file is absent; else 'Invalid EPUB file format'
\* when the EPUB name does not end with '.epub' (no case folding); else
\* 'Invalid ONIX file format' when the ONIX name does not end with '.xml';
\* else it passes.
C23_FileCheckPrecedence ==
    /\ [](~EndsWith(<<"B", "O", "O", "K", ".", "E", "P", "U", "B">>, DotEpub))
    /\ [][(SubmitGesture /\ validateISBN(value["epub_isbn"]) /\ ~FileCheckAsStated.valid)
              => Reports(FileCheckAsStated.message)]_vars

\* the step in which the document of the pending request is downloaded
Downloaded ==
    /\ requests # <<>>
    /\ Len(downloads') = Len(downloads) + 1

\* C24: for every successful submission, the ISBN in the download filename
\* is the epub_isbn value that was validated and sent in that request, also
\* when the user edits the ISBN field while the request is in flight; the
\* ISBN part of the name is always 13 digits.
C24_FilenameHasSentIsbn ==
    [][Downloaded =>
          LET sent == requests[1].formData.value["epub_isbn"]
          IN  /\ ThirteenDigits(sent)
              /\ \E now \in Instants :
                     downloads'[Len(downloads')] = FilenameAsStated(sent, now)]_vars

Passes(f) == value[f] = Empty \/ validatePrice(value[f])

\* an enhanced form whose fields other than the prices are valid
EnhancedButPrices ==
    /\ role = "enhanced"
    /\ validateISBN(value["epub_isbn"])
    /\ validateFiles(FormData.files["epub_file"], FormData.files["onix_file"]).valid
    /\ validateName(value["sender_name"])
    /\ validateName(value["contact_name"])
    /\ validateEmail(value["email"])

\* the message for the first price, in the order CAD, GBP, USD, that does
\* not pass
FirstPriceMessage ==
    IF ~Passes("price_cad") THEN "Invalid CAD Price format"
    ELSE IF ~Passes("price_gbp") THEN "Invalid GBP Price format"
    ELSE "Invalid USD Price format"

SubmissionStep == SubmitGesture \/ requests' # requests

\* C27: a submission attempt changes nothing in FormState: over the gesture
\* and every step of its request, whether it ends in a validation failure,
\* a server rejection, a transport failure or a success, every field value,
\* the chosen files, the selected role and each field's required and
\* visible status stay as they are, so that the user can correct the input
\* and submit again.
C27_FormStateUntouched ==
    /\ [][SubmissionStep =>
              UNCHANGED <<role, value, files, required, display, emailInvalid>>]_vars
    /\ [](requests = <<>> => ~submitButton.disabled)

\* the server has rejected a submission; the form holds what was submitted
\* and can be submitted again
C27_Witness ==
    /\ submits = 1
    /\ requests = <<>>
    /\ banners # <<>>
    /\ banners[1].text = "Invalid EPUB"
    /\ value["epub_isbn"] = GoodIsbn
    /\ files = ValidFiles
    /\ role = "basic"
    /\ ENABLED Submit

====
